---- MODULE Spec2Model ----
(***************************************************************************)
(* Stardew Sage: the rate limiter (src/lib/rate-limit.ts), the feedback    *)
(* vote endpoint (src/app/api/feedback/route.ts, two revisions) and the    *)
(* chat endpoint (src/app/api/chat/route.ts) as state machines.            *)
(*                                                                         *)
(* Every `await` of a handler is a point where other requests and the      *)
(* clock may move, so each handler is cut into one action per store call.  *)
(***************************************************************************)
EXTENDS Integers, FiniteSets, Sequences, TLC

(***************************************************************************)
(* Program constants of src/lib/rate-limit.ts.                             *)
(***************************************************************************)
WINDOW_SECONDS == 60
MAX_REQUESTS_PER_WINDOW == 5
DAILY_WINDOW_SECONDS == 86400
MAX_REQUESTS_PER_DAY == 100

(***************************************************************************)
(* Bounds of the model.                                                    *)
(***************************************************************************)
\* concurrent checkRateLimit calls in the concurrent specification
NCallers == 2
\* last clock value (seconds) of the concurrent specification
MaxTime == 60
\* last clock value (seconds) of the sequential, day-long specification
MaxTimeDay == 1200
\* calls whose minute increment lands in one minute window
MaxCallsPerWindow == 6
\* store calls that may fail in one run
MaxFailures == 1
\* vote requests in flight together
NVoters == 2
\* vote requests in one run
MaxVotes == 2
\* calls to the feedback store that may fail in one run
MaxFbFailures == 1
\* chat requests in flight together
NChatters == 2
\* chat requests in one run
MaxChats == 3
\* callers of the specification with failing store calls
NFailCallers == 1
\* concurrent callers of the specification with several identifiers
NIdCallers == 2
\* rows of one (type, fingerprint) the table may hold at the start
MaxRows == 2
\* submits and prompt clicks of the chat component
MaxChatEvents == 3
\* calls of handleVote
MaxVoteAttempts == 3
\* operations on the saved tips
MaxTipOps == 3

\* the identifiers checkRateLimit is called with: a client's address and the
\* empty string
Identifiers == {"1.2.3.4", ""}

\* the one client of the specifications with a single identifier
OneClient == {"1.2.3.4"}

Callers == 1..NCallers

VARIABLES
    now,        \* the clock, in unix seconds (Date.now() / 1000)
    redis,      \* the counter store: key -> [count, exp]
    calls,      \* the checkRateLimit calls in flight, by slot
    last,       \* the call that returned last at this clock instant
    mLanded,    \* per identifier: minute increments landed in the current window
    dLanded,    \* per identifier: day increments landed on the current date
    failures,   \* store failures so far
    uniqueConstraint, \* feedback_clicks has a unique (button_type, user_fingerprint)
    revision,   \* the deployed revision of the feedback route
    clicks,     \* the rows of feedback_clicks
    votes,      \* the POST /api/feedback requests in flight, by slot
    lastVote,   \* the vote request answered last
    accepted,   \* per (type, fingerprint): requests answered 200
    fbStarted,  \* vote requests received so far
    fbFailures, \* failed calls to the feedback store so far
    apiKey,     \* GEMINI_API_KEY is set
    chats,      \* the POST /api/chat requests in flight, by slot
    lastChat,   \* the chat request answered last
    geminiCalls, \* requests sent to the Gemini API so far
    chatStarted, \* chat requests received so far
    chatUI,     \* the state of ChatInterface
    voteUI,     \* the state of FeedbackButtons
    tipsUI,     \* the state of useSavedTips
    localStorage \* the browser's localStorage: key -> item

rlVars == <<now, redis, calls, last, mLanded, dLanded, failures>>

fbVars == <<uniqueConstraint, revision, clicks, votes, lastVote, accepted,
            fbStarted, fbFailures>>

chatVars == <<apiKey, chats, lastChat, geminiCalls, chatStarted>>

uiVars == <<chatUI, voteUI, tipsUI, localStorage>>

nonRL == <<fbVars, chatVars, uiVars>>

nonFB == <<rlVars, chatVars, uiVars>>

nonChat == <<rlVars, fbVars, uiVars>>

nonUI == <<rlVars, fbVars, chatVars>>

vars == <<now, redis, calls, last, mLanded, dLanded, failures,
          uniqueConstraint, revision, clicks, votes, lastVote, accepted,
          fbStarted, fbFailures,
          apiKey, chats, lastChat, geminiCalls, chatStarted,
          chatUI, voteUI, tipsUI, localStorage>>

(***************************************************************************)
(* The counter store (Redis behind src/lib/redis.ts).                      *)
(***************************************************************************)
NoTTL == -1

\* INCR: creates the key at 1 with no expiry, else adds one and keeps the TTL
\* (two fields the program never reads: born, the instant t of the key's
\* creation, tells one lifetime of a key from the next; passed counts the
\* calls of this lifetime that were let past the minute limit)
RedisIncr(store, k, t) ==
    IF k \in DOMAIN store
    THEN [store EXCEPT ![k].count = @ + 1]
    ELSE store @@ (k :> [count |-> 1, exp |-> NoTTL, born |-> t, passed |-> 0])

\* bookkeeping: call c has just been let past the minute limit on key k
NotePassed(store, k, c) ==
    IF c.pc = "incrDay" /\ k \in DOMAIN store
    THEN [store EXCEPT ![k].passed = @ + 1]
    ELSE store

\* EXPIRE: the key, if it exists, dies ttl seconds from t
RedisExpire(store, k, ttl, t) ==
    IF k \in DOMAIN store
    THEN [store EXCEPT ![k].exp = t + ttl]
    ELSE store

\* the store at time t: keys whose expiry has passed are gone
RedisAt(store, t) ==
    LET live == {k \in DOMAIN store : store[k].exp = NoTTL \/ store[k].exp > t}
    IN  [k \in live |-> store[k]]

(***************************************************************************)
(* getIdentifiers                                                          *)
(***************************************************************************)
\* (mutant) a window is two minutes long
CurrentWindowLong(t) == t \div (2 * WINDOW_SECONDS)

CurrentWindow(t) == t \div WINDOW_SECONDS

\* new Date().toISOString().slice(0, 10): the UTC date, as days since epoch
CurrentDay(t) == t \div 86400

\* (mutant) the minute key does not name its window
MinuteKeyNoWindow(identifier, w) == <<"chat:rl:minute", identifier, 0>>

\* (mutant) the minute key does not name its identifier
MinuteKeyShared(identifier, w) == <<"chat:rl:minute", "", w>>

MinuteKey(identifier, w) == <<"chat:rl:minute", identifier, w>>

DayKey(identifier, d) == <<"chat:rl:day", identifier, d>>

(***************************************************************************)
(* checkRateLimit                                                          *)
(***************************************************************************)
IdleCall ==
    [pc |-> "idle", identifier |-> "", window |-> 0, day |-> 0,
     minuteCount |-> 0, dayCount |-> 0, ordM |-> 0, ordD |-> 0, born |-> 0,
     result |-> "none", retryAfter |-> 0, failed |-> FALSE]

Free(p) == calls[p].pc = "idle"

\* the call's next position; a call that has returned leaves its slot
Settle(p, c) ==
    /\ calls' = [calls EXCEPT ![p] = IF c.pc = "done" THEN IdleCall ELSE c]
    /\ last' = IF c.pc = "done" THEN c ELSE last

Return(c, res, after) ==
    [c EXCEPT !.pc = "done", !.result = res, !.retryAfter = after]

\* (mutant) the rejection is caught and the request is let through
ThrowSwallowed(c) ==
    [c EXCEPT !.pc = "done", !.result = "success", !.failed = TRUE]

\* a rejected store call is not caught: the rejection is the call's outcome
Throw(c) ==
    [c EXCEPT !.pc = "done", !.result = "error", !.failed = TRUE]

\* (mutant) expire is called after every increment
NewlyCreatedAlways(count) == count >= 1

\* lines 27 and 36: the increment has created the key
NewlyCreated(count) == count = 1

\* (mutant) there is no minute limit
MinuteDeniedNever(minuteCount) == FALSE

\* (mutant) only the first call over the day limit is denied
DayDeniedOnce(dayCount) == dayCount = MAX_REQUESTS_PER_DAY + 1

\* (mutant) the minute limit is reached one request early
MinuteDeniedEarly(minuteCount) == minuteCount >= MAX_REQUESTS_PER_WINDOW

\* (mutant) the minute limit is reached one request late
MinuteDeniedLate(minuteCount) == minuteCount > MAX_REQUESTS_PER_WINDOW + 1

\* line 31 and line 40
MinuteDenied(minuteCount) == minuteCount > MAX_REQUESTS_PER_WINDOW

\* (mutant) the day limit is reached one request early
DayDeniedEarly(dayCount) == dayCount >= MAX_REQUESTS_PER_DAY

\* line 44
DayDenied(dayCount) == dayCount > MAX_REQUESTS_PER_DAY

\* (mutant) a call over the minute limit increments again
AfterMinuteRetry(c) ==
    IF MinuteDenied(c.minuteCount)
    THEN [c EXCEPT !.pc = "incrMinute"]
    ELSE [c EXCEPT !.pc = "incrDay"]

\* (mutant) the day counter is incremented before the minute limit is looked at
AfterMinuteCharged(c) == [c EXCEPT !.pc = "incrDay"]

\* lines 31-35: after the minute counter is settled
AfterMinute(c) ==
    IF MinuteDenied(c.minuteCount)
    THEN Return(c, "denied", WINDOW_SECONDS)
    ELSE [c EXCEPT !.pc = "incrDay"]

\* lines 40-48: after the day counter is settled
AfterDay(c) ==
    IF MinuteDenied(c.minuteCount)
    THEN Return(c, "denied", WINDOW_SECONDS)
    ELSE IF DayDenied(c.dayCount)
         THEN Return(c, "denied", DAILY_WINDOW_SECONDS)
         ELSE Return(c, "success", 0)

\* calls of an identifier bound for the current window that have not incremented yet
Pending(identifier) ==
    Cardinality({q \in DOMAIN calls :
        /\ calls[q].pc = "incrMinute"
        /\ calls[q].identifier = identifier
        /\ calls[q].window = CurrentWindow(now)})

\* line 24: a call starts and reads the clock for its two keys
Start(P, p, identifier) ==
    /\ Free(p)
    /\ \A q \in P : q < p => ~Free(q)
    /\ mLanded[identifier] + Pending(identifier) < MaxCallsPerWindow
    /\ calls' = [calls EXCEPT ![p] =
         [IdleCall EXCEPT !.pc = "incrMinute", !.identifier = identifier,
                          !.window = CurrentWindow(now), !.day = CurrentDay(now)]]
    /\ UNCHANGED <<now, redis, last, mLanded, dLanded, failures, nonRL>>

\* line 26: redis.incr(minuteKey), then lines 27, 31
IncrMinute(p) ==
    LET c == calls[p]
        k == MinuteKey(c.identifier, c.window)
        store == RedisIncr(redis, k, now)
        inWindow == CurrentWindow(now) = c.window
        c1 == [c EXCEPT !.minuteCount = store[k].count,
                        !.born = store[k].born,
                        !.ordM = IF inWindow THEN mLanded[c.identifier] + 1 ELSE 0]
        c2 == IF NewlyCreated(c1.minuteCount)
              THEN [c1 EXCEPT !.pc = "expireMinute"]
              ELSE AfterMinute(c1)
    IN  /\ c.pc = "incrMinute"
        /\ redis' = NotePassed(store, k, c2)
        /\ mLanded' = IF inWindow
                      THEN [mLanded EXCEPT ![c.identifier] = @ + 1]
                      ELSE mLanded
        /\ Settle(p, c2)
        /\ UNCHANGED <<now, dLanded, failures, nonRL>>

\* line 28: redis.expire(minuteKey, WINDOW_SECONDS), then line 31
ExpireMinute(p) ==
    LET c == calls[p]
        k == MinuteKey(c.identifier, c.window)
    IN  /\ c.pc = "expireMinute"
        /\ redis' = NotePassed(RedisExpire(redis, k, WINDOW_SECONDS, now),
                               k, AfterMinute(c))
        /\ Settle(p, AfterMinute(c))
        /\ UNCHANGED <<now, mLanded, dLanded, failures, nonRL>>

\* line 35: redis.incr(dayKey), then lines 36, 40-48
IncrDay(p) ==
    LET c == calls[p]
        k == DayKey(c.identifier, c.day)
        store == RedisIncr(redis, k, now)
        inDay == CurrentDay(now) = c.day
        c1 == [c EXCEPT !.dayCount = store[k].count,
                        !.ordD = IF inDay THEN dLanded[c.identifier] + 1 ELSE 0]
    IN  /\ c.pc = "incrDay"
        /\ redis' = store
        /\ dLanded' = IF inDay
                      THEN [dLanded EXCEPT ![c.identifier] = @ + 1]
                      ELSE dLanded
        /\ Settle(p, IF NewlyCreated(c1.dayCount)
                      THEN [c1 EXCEPT !.pc = "expireDay"]
                      ELSE AfterDay(c1))
        /\ UNCHANGED <<now, mLanded, failures, nonRL>>

\* line 37: redis.expire(dayKey, DAILY_WINDOW_SECONDS), then lines 40-48
ExpireDay(p) ==
    LET c == calls[p]
    IN  /\ c.pc = "expireDay"
        /\ redis' = RedisExpire(redis, DayKey(c.identifier, c.day),
                                DAILY_WINDOW_SECONDS, now)
        /\ Settle(p, AfterDay(c))
        /\ UNCHANGED <<now, mLanded, dLanded, failures, nonRL>>

(***************************************************************************)
(* A store call that fails: the request may or may not have been applied   *)
(* by the store before the failure reached the client.                     *)
(***************************************************************************)
IncrMinuteFail(p) ==
    LET c == calls[p]
        inWindow == CurrentWindow(now) = c.window
    IN  /\ c.pc = "incrMinute"
        /\ failures < MaxFailures
        /\ failures' = failures + 1
        /\ \E applied \in BOOLEAN :
              /\ redis' = IF applied
                          THEN RedisIncr(redis, MinuteKey(c.identifier, c.window), now)
                          ELSE redis
              /\ mLanded' = IF applied /\ inWindow
                            THEN [mLanded EXCEPT ![c.identifier] = @ + 1]
                            ELSE mLanded
        /\ Settle(p, Throw(c))
        /\ UNCHANGED <<now, dLanded, nonRL>>

ExpireMinuteFail(p) ==
    LET c == calls[p]
    IN  /\ c.pc = "expireMinute"
        /\ failures < MaxFailures
        /\ failures' = failures + 1
        /\ \E applied \in BOOLEAN :
              redis' = IF applied
                       THEN RedisExpire(redis, MinuteKey(c.identifier, c.window),
                                        WINDOW_SECONDS, now)
                       ELSE redis
        /\ Settle(p, Throw(c))
        /\ UNCHANGED <<now, mLanded, dLanded, nonRL>>

IncrDayFail(p) ==
    LET c == calls[p]
        inDay == CurrentDay(now) = c.day
    IN  /\ c.pc = "incrDay"
        /\ failures < MaxFailures
        /\ failures' = failures + 1
        /\ \E applied \in BOOLEAN :
              /\ redis' = IF applied
                          THEN RedisIncr(redis, DayKey(c.identifier, c.day), now)
                          ELSE redis
              /\ dLanded' = IF applied /\ inDay
                            THEN [dLanded EXCEPT ![c.identifier] = @ + 1]
                            ELSE dLanded
        /\ Settle(p, Throw(c))
        /\ UNCHANGED <<now, mLanded, nonRL>>

ExpireDayFail(p) ==
    LET c == calls[p]
    IN  /\ c.pc = "expireDay"
        /\ failures < MaxFailures
        /\ failures' = failures + 1
        /\ \E applied \in BOOLEAN :
              redis' = IF applied
                       THEN RedisExpire(redis, DayKey(c.identifier, c.day),
                                        DAILY_WINDOW_SECONDS, now)
                       ELSE redis
        /\ Settle(p, Throw(c))
        /\ UNCHANGED <<now, mLanded, dLanded, nonRL>>

(***************************************************************************)
(* The clock.  Time is sampled at the first and the last second of every   *)
(* minute window; keys whose TTL has run out disappear.  With `stall` a    *)
(* call may stay in flight across clock instants.                          *)
(***************************************************************************)
NextInstant(t) ==
    IF t % WINDOW_SECONDS = 0 THEN t + (WINDOW_SECONDS - 1) ELSE t + 1

Tick(maxT, stall) ==
    LET t == NextInstant(now)
    IN  /\ t <= maxT
        /\ stall \/ \A p \in DOMAIN calls : Free(p)
        /\ now' = t
        /\ redis' = RedisAt(redis, t)
        /\ mLanded' = IF CurrentWindow(t) = CurrentWindow(now)
                      THEN mLanded ELSE [i \in Identifiers |-> 0]
        /\ dLanded' = IF CurrentDay(t) = CurrentDay(now)
                      THEN dLanded ELSE [i \in Identifiers |-> 0]
        /\ last' = IdleCall
        /\ UNCHANGED <<calls, failures, nonRL>>

(***************************************************************************)
(* The feedback store (Supabase table feedback_clicks) and the vote        *)
(* endpoint POST /api/feedback, in its two revisions.                      *)
(***************************************************************************)
ButtonTypes == {"love_website", "want_app"}

\* request bodies: a type outside the enumeration, a missing type ("") and a
\* missing or empty fingerprint ("") too
TypesIn == ButtonTypes \cup {"other", ""}

FingerprintsIn == {"f1", "f2", ""}

Revisions == {"route.ts", "part_006"}

Voters == 1..NVoters

Matching(rows, type, fingerprint) ==
    {r \in rows : r.button_type = type /\ r.user_fingerprint = fingerprint}

\* select('count').eq('button_type', type).single(): the rows of a type
CountOf(rows, type) == Cardinality({r \in rows : r.button_type = type})

Tally(rows) == [t \in ButtonTypes |-> CountOf(rows, t)]

\* (mutant) a category without votes is left out of the counts
OrMissing(count) == IF count = 0 THEN -1 ELSE count

\* `data?.count || 0`
OrZero(count) == IF count = 0 THEN 0 ELSE count

\* (mutant) the existence check filters on the fingerprint alone
ExistingByFingerprintOnly(rows, type, fingerprint) ==
    Cardinality({r \in rows : r.user_fingerprint = fingerprint}) = 1

\* (mutant) the existence check filters on the button type alone
ExistingByTypeOnly(rows, type, fingerprint) ==
    Cardinality({r \in rows : r.button_type = type}) = 1

\* select('id').eq(..).eq(..).single(): data is the row when exactly one row
\* matches and null otherwise
Existing(rows, type, fingerprint) ==
    Cardinality(Matching(rows, type, fingerprint)) = 1

\* the store refuses the insert of a second row of a pair under the constraint
Conflicts(rows, type, fingerprint) ==
    uniqueConstraint /\ Matching(rows, type, fingerprint) # {}

\* the id (a generated uuid) tells the rows of one pair apart
NewRow(rows, type, fingerprint) ==
    [id |-> Cardinality(Matching(rows, type, fingerprint)) + 1,
     button_type |-> type,
     user_fingerprint |-> fingerprint]

NoBody == [error |-> "", count |-> -1, loveWebsite |-> -1, wantApp |-> -1]

IdleVote ==
    [pc |-> "idle", method |-> "", type |-> "", fingerprint |-> "", status |-> 0,
     body |-> NoBody, checkFailed |-> FALSE, insertFailed |-> FALSE,
     insertRejected |-> FALSE, inserted |-> 0, quiet |-> TRUE,
     rowsAtStart |-> 0, tallyStart |-> Tally({}), tallyEnd |-> Tally({})]

FeedbackIdle ==
    /\ uniqueConstraint = FALSE
    /\ revision = "route.ts"
    /\ clicks = {}
    /\ votes = <<>>
    /\ lastVote = IdleVote
    /\ accepted = <<>>
    /\ fbStarted = 0
    /\ fbFailures = 0

VoteFree(v) == votes[v].pc = "idle"

Respond(r, status, body) ==
    [r EXCEPT !.pc = "done", !.status = status, !.body = body]

\* (mutant) the type is not looked up in the enumeration
InvalidRequestAnyType(type, fingerprint) ==
    type = "" \/ fingerprint = ""

\* lines 39-45 (part_006: 18-24)
InvalidRequest(type, fingerprint) ==
    type = "" \/ fingerprint = "" \/ type \notin ButtonTypes

\* the request's next position; an answered request leaves its slot
SettleVote(v, r) ==
    LET pair == <<r.type, r.fingerprint>>
        r1 == IF r.pc = "done" THEN [r EXCEPT !.tallyEnd = Tally(clicks')] ELSE r
    IN  /\ votes' = [votes EXCEPT ![v] = IF r.pc = "done" THEN IdleVote ELSE r]
        /\ lastVote' = IF r.pc = "done" THEN r1 ELSE lastVote
        /\ accepted' = IF r.pc = "done" /\ r.status = 200
                       THEN IF pair \in DOMAIN accepted
                            THEN [accepted EXCEPT ![pair] = @ + 1]
                            ELSE accepted @@ (pair :> 1)
                       ELSE accepted

\* lines 37-45: the body is read and validated
Receive(v, type, fingerprint) ==
    LET busy == {w \in Voters : ~VoteFree(w)}
        r == [IdleVote EXCEPT !.pc = "check", !.method = "POST", !.type = type,
                              !.fingerprint = fingerprint,
                              !.quiet = (busy = {}),
                              !.rowsAtStart =
                                  Cardinality(Matching(clicks, type, fingerprint)),
                              !.tallyStart = Tally(clicks)]
    IN  /\ VoteFree(v)
        /\ \A w \in Voters : w < v => ~VoteFree(w)
        /\ fbStarted < MaxVotes
        /\ fbStarted' = fbStarted + 1
        /\ clicks' = clicks
        /\ IF InvalidRequest(type, fingerprint)
           THEN /\ votes' = votes
                /\ lastVote' = [Respond(r, 400, [NoBody EXCEPT !.error = "Invalid request"])
                                  EXCEPT !.tallyEnd = Tally(clicks)]
                /\ accepted' = accepted
           ELSE /\ votes' = [w \in Voters |->
                              IF w = v THEN r
                              ELSE IF VoteFree(w) THEN votes[w]
                              ELSE [votes[w] EXCEPT !.quiet = FALSE]]
                /\ lastVote' = lastVote
                /\ accepted' = accepted
        /\ UNCHANGED <<uniqueConstraint, revision, fbFailures, nonFB>>

\* lines 48-60 (part_006: 27-39): the existence check; its error is not read
AfterCheck(r, existing) ==
    IF existing
    THEN Respond(r, 409, [NoBody EXCEPT !.error = "Already voted"])
    ELSE [r EXCEPT !.pc = "insert"]

Check(v) ==
    LET r == votes[v]
    IN  /\ r.pc = "check"
        /\ clicks' = clicks
        /\ SettleVote(v, AfterCheck(r, Existing(clicks, r.type, r.fingerprint)))
        /\ UNCHANGED <<uniqueConstraint, revision, fbStarted, fbFailures, nonFB>>

\* the existence check fails in the store or on the way: data is null
CheckFail(v) ==
    LET r == votes[v]
    IN  /\ r.pc = "check"
        /\ fbFailures < MaxFbFailures
        /\ fbFailures' = fbFailures + 1
        /\ clicks' = clicks
        /\ SettleVote(v, AfterCheck([r EXCEPT !.checkFailed = TRUE], FALSE))
        /\ UNCHANGED <<uniqueConstraint, revision, fbStarted, nonFB>>

\* lines 72-74 and 84-89 (part_006: 49-55): an insert error ends in a 500
AfterInsertError(r) ==
    Respond(r, 500,
            [NoBody EXCEPT !.error = IF revision = "route.ts"
                                     THEN "Failed to submit feedback"
                                     ELSE "Failed to record vote"])

AfterInsert(r) ==
    [r EXCEPT !.pc = IF revision = "route.ts" THEN "count" ELSE "countLove",
              !.inserted = @ + 1]

\* lines 63-74 (part_006: 42-55): the insert
Insert(v) ==
    LET r == votes[v]
    IN  /\ r.pc = "insert"
        /\ IF Conflicts(clicks, r.type, r.fingerprint)
           THEN /\ clicks' = clicks
                /\ SettleVote(v, AfterInsertError([r EXCEPT !.insertRejected = TRUE]))
           ELSE /\ clicks' = clicks \cup {NewRow(clicks, r.type, r.fingerprint)}
                /\ SettleVote(v, AfterInsert(r))
        /\ UNCHANGED <<uniqueConstraint, revision, fbStarted, fbFailures, nonFB>>

\* the insert fails; the row may have been stored before the failure
InsertFail(v) ==
    LET r == votes[v]
    IN  /\ r.pc = "insert"
        /\ fbFailures < MaxFbFailures
        /\ fbFailures' = fbFailures + 1
        /\ \E applied \in BOOLEAN :
              clicks' = IF applied /\ ~Conflicts(clicks, r.type, r.fingerprint)
                        THEN clicks \cup {NewRow(clicks, r.type, r.fingerprint)}
                        ELSE clicks
        /\ SettleVote(v, AfterInsertError(
               [r EXCEPT !.insertFailed = TRUE,
                         !.inserted = IF clicks' = clicks THEN @ ELSE @ + 1]))
        /\ UNCHANGED <<uniqueConstraint, revision, fbStarted, nonFB>>

\* route.ts lines 77-83: the count of the voted type; `counts?.count || 1`
Count(v) ==
    LET r == votes[v]
    IN  /\ r.pc = "count"
        /\ clicks' = clicks
        /\ \E ok \in BOOLEAN :
              /\ ~ok => fbFailures < MaxFbFailures
              /\ fbFailures' = IF ok THEN fbFailures ELSE fbFailures + 1
              /\ SettleVote(v, Respond(r, 200,
                     [NoBody EXCEPT !.count =
                         IF ok /\ CountOf(clicks, r.type) # 0
                         THEN CountOf(clicks, r.type) ELSE 1]))
        /\ UNCHANGED <<uniqueConstraint, revision, fbStarted, nonFB>>

\* part_006 lines 96-100: getVoteCounts reads the love_website count
CountLove(v) ==
    LET r == votes[v]
    IN  /\ r.pc = "countLove"
        /\ clicks' = clicks
        /\ \E ok \in BOOLEAN :
              /\ ~ok => fbFailures < MaxFbFailures
              /\ fbFailures' = IF ok THEN fbFailures ELSE fbFailures + 1
              /\ SettleVote(v, [r EXCEPT !.pc = "countWant",
                     !.body.loveWebsite =
                         IF ok THEN OrZero(CountOf(clicks, "love_website")) ELSE -1,
                     !.body.error = IF ok THEN "" ELSE "count"])
        /\ UNCHANGED <<uniqueConstraint, revision, fbStarted, nonFB>>

\* part_006 lines 102-121 and 58-67: the want_app count, then the answer
CountWant(v) ==
    LET r == votes[v]
    IN  /\ r.pc = "countWant"
        /\ clicks' = clicks
        /\ \E ok \in BOOLEAN :
              /\ ~ok => fbFailures < MaxFbFailures
              /\ fbFailures' = IF ok THEN fbFailures ELSE fbFailures + 1
              /\ SettleVote(v, Respond(r, 200,
                     IF ok /\ r.body.error = ""
                     THEN [NoBody EXCEPT
                             !.loveWebsite = r.body.loveWebsite,
                             !.wantApp = OrZero(CountOf(clicks, "want_app"))]
                     ELSE [NoBody EXCEPT !.error =
                             "Vote recorded but failed to fetch updated counts"]))
        /\ UNCHANGED <<uniqueConstraint, revision, fbStarted, nonFB>>

(***************************************************************************)
(* GET /api/feedback: the two counts, read one after the other (route.ts   *)
(* lines 5-33; part_006 lines 77-93 with getVoteCounts, lines 95-122).     *)
(***************************************************************************)
\* the request's next position; an answered request leaves its slot
SettleTally(v, r) ==
    /\ votes' = [votes EXCEPT ![v] = IF r.pc = "done" THEN IdleVote ELSE r]
    /\ lastVote' = IF r.pc = "done"
                   THEN [r EXCEPT !.tallyEnd = Tally(clicks)]
                   ELSE lastVote
    /\ accepted' = accepted

\* a GET request arrives
ReceiveTally(v) ==
    LET busy == {w \in Voters : ~VoteFree(w) /\ votes[w].method = "POST"}
    IN  /\ VoteFree(v)
        /\ \A w \in Voters : w < v => ~VoteFree(w)
        /\ fbStarted < MaxVotes
        /\ fbStarted' = fbStarted + 1
        /\ clicks' = clicks
        /\ SettleTally(v, [IdleVote EXCEPT !.pc = "tallyLove", !.method = "GET",
                                           !.quiet = (busy = {}),
                                           !.tallyStart = Tally(clicks)])
        /\ UNCHANGED <<uniqueConstraint, revision, fbFailures, nonFB>>

\* the love_website count is read (route.ts lines 7-11, part_006 lines 96-100)
TallyLove(v) ==
    LET r == votes[v]
    IN  /\ r.pc = "tallyLove"
        /\ clicks' = clicks
        /\ \E ok \in BOOLEAN :
              /\ ~ok => fbFailures < MaxFbFailures
              /\ fbFailures' = IF ok THEN fbFailures ELSE fbFailures + 1
              /\ SettleTally(v, [r EXCEPT !.pc = "tallyWant",
                     !.body.loveWebsite =
                         IF ok THEN OrZero(CountOf(clicks, "love_website")) ELSE -1,
                     !.body.error = IF ok THEN "" ELSE "count"])
        /\ UNCHANGED <<uniqueConstraint, revision, fbStarted, nonFB>>

\* the want_app count is read, then the answer (route.ts lines 13-32,
\* part_006 lines 102-121 and 79-92): an error of either read ends in a 500
TallyWant(v) ==
    LET r == votes[v]
    IN  /\ r.pc = "tallyWant"
        /\ clicks' = clicks
        /\ \E ok \in BOOLEAN :
              /\ ~ok => fbFailures < MaxFbFailures
              /\ fbFailures' = IF ok THEN fbFailures ELSE fbFailures + 1
              /\ SettleTally(v,
                     IF ok /\ r.body.error = ""
                     THEN Respond(r, 200, [NoBody EXCEPT
                             !.loveWebsite = r.body.loveWebsite,
                             !.wantApp = OrZero(CountOf(clicks, "want_app"))])
                     ELSE Respond(r, 500, [NoBody EXCEPT !.error =
                             "Failed to fetch feedback counts"]))
        /\ UNCHANGED <<uniqueConstraint, revision, fbStarted, nonFB>>

(***************************************************************************)
(* The chat endpoint POST /api/chat (src/app/api/chat/route.ts).           *)
(***************************************************************************)
Chatters == 1..NChatters

\* request bodies: a text, an empty string, no message, a message that is no
\* string, and the JSON value null
MessagesIn == {"text", "empty", "missing", "number", "null"}

\* what the Gemini API answers: a candidate text, a candidate whose text is
\* truthy but no string, a body of another shape,
\* a status that is not ok, or no answer at all (fetch rejects)
GeminiAnswers == {"text", "nonstring", "shape", "status", "network"}

\* what checkRateLimit has to say about the client of a request when the
\* request arrives: success, the minute limit exceeded, the day limit exceeded
LimiterVerdicts == {"success", "minute", "day"}

\* rateLimit: the result of checkRateLimit for the request, "none" while the
\* handler has not called it; verdict: what checkRateLimit has to say about
\* the client; retryAfter: the Retry-After header of the response, 0 for none
IdleChat ==
    [pc |-> "idle", message |-> "missing", rateLimit |-> "none",
     verdict |-> "success", calledGemini |-> FALSE, answer |-> "none",
     status |-> 0,
     hasResponse |-> FALSE, retryAfter |-> 0]

ChatIdle ==
    /\ apiKey = FALSE
    /\ chats = <<>>
    /\ lastChat = IdleChat
    /\ geminiCalls = 0
    /\ chatStarted = 0

ChatFree(r) == chats[r].pc = "idle"

\* NextResponse.json(body, { status }): no response of the handler has headers
Answer(c, status, hasResponse) ==
    [c EXCEPT !.pc = "done", !.status = status, !.hasResponse = hasResponse,
              !.retryAfter = 0]

\* line 43: destructuring a body that is null throws a TypeError
BodyThrows(message) == message = "null"

\* line 46
InvalidMessage(message) == message # "text"

SettleChat(r, c) ==
    /\ chats' = [chats EXCEPT ![r] = IF c.pc = "done" THEN IdleChat ELSE c]
    /\ lastChat' = IF c.pc = "done" THEN c ELSE lastChat

\* lines 31-42: the key is checked, then the body is awaited
Arrive(r, message, verdict) ==
    LET c == [IdleChat EXCEPT !.message = message, !.verdict = verdict]
    IN  /\ ChatFree(r)
        /\ \A q \in Chatters : q < r => ~ChatFree(q)
        /\ chatStarted < MaxChats
        /\ chatStarted' = chatStarted + 1
        /\ SettleChat(r, IF ~apiKey
                         THEN Answer(c, 500, FALSE)
                         ELSE [c EXCEPT !.pc = "body"])
        /\ UNCHANGED <<apiKey, geminiCalls, nonChat>>

\* lines 42-94: the message is validated, the prompt built and the request to
\* the Gemini API sent
Body(r) ==
    LET c == chats[r]
    IN  /\ c.pc = "body"
        /\ IF BodyThrows(c.message)
           THEN /\ SettleChat(r, Answer(c, 500, FALSE))
                /\ geminiCalls' = geminiCalls
           ELSE IF InvalidMessage(c.message)
           THEN /\ SettleChat(r, Answer(c, 400, FALSE))
                /\ geminiCalls' = geminiCalls
           ELSE /\ SettleChat(r, [c EXCEPT !.pc = "gemini", !.calledGemini = TRUE])
                /\ geminiCalls' = geminiCalls + 1
        /\ UNCHANGED <<apiKey, chatStarted, nonChat>>

\* lines 153-169: fetchGeminiResponse returns the text field or throws; the
\* test of line 164 is for a truthy text, a string or not
GeminiText(answer) == answer \in {"text", "nonstring"}

\* lines 94-105 and 127-169: the answer of the Gemini API arrives
Gemini(r, answer) ==
    LET c == [chats[r] EXCEPT !.answer = answer]
    IN  /\ c.pc = "gemini"
        /\ SettleChat(r, IF GeminiText(answer)
                         THEN Answer(c, 200, TRUE)
                         ELSE Answer(c, 500, FALSE))
        /\ UNCHANGED <<apiKey, geminiCalls, chatStarted, nonChat>>

(***************************************************************************)
(* The browser side: localStorage and the React components.  A component's *)
(* state is what its setters have set; `shown`/`rendered` is the state of  *)
(* the last render, which is what the closures of its handlers read.  An   *)
(* update made in an event handler is rendered before the handler's event  *)
(* ends; an update made after an `await` or in an effect is rendered by a  *)
(* later step.                                                             *)
(***************************************************************************)
FEEDBACK_STORAGE_KEY == "stardew-feedback-fingerprint"

VOTED_KEY == "stardew-feedback-voted"

TIPS_STORAGE_KEY == "stardew-sage-saved-tips"

\* localStorage.getItem of a key without an item
NullItem == [kind |-> "null", items |-> <<>>]

\* an item holding a plain text
TextItem(text) == [kind |-> "text", items |-> <<text>>]

\* JSON.stringify of an array
Stringify(list) == [kind |-> "array", items |-> list]

\* an item that is no JSON, and one that is JSON but no array
InvalidItem == [kind |-> "invalid", items |-> <<>>]

ObjectItem == [kind |-> "object", items |-> <<>>]

EmptyStorage ==
    (FEEDBACK_STORAGE_KEY :> NullItem) @@ (VOTED_KEY :> NullItem)
        @@ (TIPS_STORAGE_KEY :> NullItem)

\* Array.prototype.includes
Includes(list, x) == \E i \in DOMAIN list : list[i] = x

\* list.filter((e) => e !== x)
Without(list, x) ==
    LET keep(e) == e # x
    IN  SelectSeq(list, keep)

\* a sequence without its i-th element
Drop(list, i) == SubSeq(list, 1, i - 1) \o SubSeq(list, i + 1, Len(list))

(***************************************************************************)
(* ChatInterface: handleSubmit, handlePromptClick and sendMessage.         *)
(***************************************************************************)
\* what the input field may hold
InputsIn == {"", " ", "hi", " hi "}

PromptsIn == {"prompt"}

\* String.prototype.trim
Trim(text) ==
    CASE text = " " -> ""
      [] text = " hi " -> "hi"
      [] OTHER -> text

\* how fetch('/api/chat') settles: a response that is ok, one that is not,
\* or a rejection
ChatReplies == {"ok", "notok", "network"}

INITIAL_ASSISTANT_MESSAGE == [role |-> "assistant", content |-> "welcome"]

\* events: the submits and prompt clicks handled so far; arg: the message of
\* the last one; settled: how the last request ended
ChatUIStart ==
    [input |-> "", isLoading |-> FALSE, rendered |-> FALSE,
     messages |-> <<INITIAL_ASSISTANT_MESSAGE>>, error |-> FALSE,
     flights |-> <<>>, events |-> 0, arg |-> "", settled |-> "none"]

\* (mutant) sendMessage does not look at isLoading
BusyNever(isLoading) == FALSE

\* line 109
Busy(isLoading) == isLoading

\* lines 109-129, up to the await of fetch
SendMessage(ui, message, clearInput) ==
    IF Busy(ui.rendered) \/ Trim(message) = ""
    THEN ui
    ELSE [ui EXCEPT !.messages = Append(@, [role |-> "user",
                                            content |-> Trim(message)]),
                    !.error = FALSE,
                    !.input = IF clearInput THEN "" ELSE @,
                    !.isLoading = TRUE,
                    !.flights = Append(@, [pc |-> "fetch",
                                           clearInput |-> clearInput])]

\* the render that ends an event
Flush(ui) == [ui EXCEPT !.rendered = ui.isLoading]

\* lines 150-156: finally
Finally(ui, i) ==
    [ui EXCEPT !.isLoading = FALSE,
               !.input = IF ui.flights[i].clearInput THEN @ ELSE "",
               !.flights = Drop(@, i)]

\* lines 147-149: catch
Caught(ui) == [ui EXCEPT !.error = TRUE, !.settled = "failed"]

\* onChange of the input field, which is disabled while isLoading
TypeInput(text) ==
    /\ ~chatUI.rendered
    /\ chatUI' = [chatUI EXCEPT !.input = text]
    /\ UNCHANGED <<voteUI, tipsUI, localStorage, nonUI>>

\* lines 174-181: handleSubmit
Submit ==
    LET ui == [chatUI EXCEPT !.events = @ + 1, !.arg = chatUI.input]
    IN  /\ chatUI.events < MaxChatEvents
        /\ chatUI' = IF Trim(chatUI.input) = ""
                     THEN ui
                     ELSE Flush(SendMessage(ui, chatUI.input, TRUE))
        /\ UNCHANGED <<voteUI, tipsUI, localStorage, nonUI>>

\* handlePromptClick
PromptClick(prompt) ==
    LET ui == [chatUI EXCEPT !.events = @ + 1, !.arg = prompt]
    IN  /\ chatUI.events < MaxChatEvents
        /\ chatUI' = IF chatUI.rendered
                     THEN ui
                     ELSE Flush(SendMessage([ui EXCEPT !.input = prompt],
                                            prompt, FALSE))
        /\ UNCHANGED <<voteUI, tipsUI, localStorage, nonUI>>

\* lines 129-137: fetch settles
FetchSettles(i, reply) ==
    /\ i \in DOMAIN chatUI.flights
    /\ chatUI.flights[i].pc = "fetch"
    /\ chatUI' = IF reply = "ok"
                 THEN [chatUI EXCEPT !.flights[i].pc = "json"]
                 ELSE Finally(Caught(chatUI), i)
    /\ UNCHANGED <<voteUI, tipsUI, localStorage, nonUI>>

\* lines 139-156: response.json() settles
JsonSettles(i, parsed) ==
    /\ i \in DOMAIN chatUI.flights
    /\ chatUI.flights[i].pc = "json"
    /\ chatUI' = IF parsed
                 THEN Finally([chatUI EXCEPT
                                  !.messages = Append(@, [role |-> "assistant",
                                                          content |-> "response"]),
                                  !.settled = "ok"], i)
                 ELSE Finally(Caught(chatUI), i)
    /\ UNCHANGED <<voteUI, tipsUI, localStorage, nonUI>>

\* the render after the updates of a settled request
RenderChat ==
    /\ chatUI.rendered # chatUI.isLoading
    /\ chatUI' = Flush(chatUI)
    /\ UNCHANGED <<voteUI, tipsUI, localStorage, nonUI>>

(***************************************************************************)
(* FeedbackButtons: the mount effect and handleVote.                       *)
(***************************************************************************)
\* how the POST of a vote settles: 2xx, 409, 500, or a rejection
VoteReplies == {"ok", "conflict", "error", "network"}

\* what handleVote's closure reads
Closure(ui) ==
    [votedButtons |-> ui.votedButtons, isLoading |-> ui.isLoading,
     fingerprint |-> ui.fingerprint]

\* attempts: the calls of handleVote so far; posts: the vote POSTs sent so
\* far; counts: "initial" for { loveWebsite: 0, wantApp: 0 }, or what a GET
\* brought; countsPending: the GET of the mount effect is in flight
VoteUIStart ==
    [mounted |-> FALSE, fingerprint |-> "", votedButtons |-> <<>>,
     isLoading |-> FALSE, counts |-> "initial",
     shown |-> [votedButtons |-> <<>>, isLoading |-> FALSE, fingerprint |-> ""],
     flights |-> <<>>, countsPending |-> FALSE, attempts |-> 0, posts |-> 0]

\* the render that ends an event or follows the updates of a later step
FlushVote(ui) == [ui EXCEPT !.shown = Closure(ui)]

\* (mutant) handleVote does not look at isLoading
VoteBlockedNotLoading(shown, type) ==
    Includes(shown.votedButtons, type) \/ shown.fingerprint = ""

\* line 38
VoteBlocked(shown, type) ==
    Includes(shown.votedButtons, type) \/ shown.isLoading \/ shown.fingerprint = ""

\* lines 16-34: the mount effect
MountVote ==
    LET stored == localStorage[FEEDBACK_STORAGE_KEY]
        newFingerprint == IF stored.kind = "null" THEN "uuid" ELSE stored.items[1]
        voted == localStorage[VOTED_KEY]
    IN  /\ ~voteUI.mounted
        /\ localStorage' = IF stored.kind = "null"
                           THEN [localStorage EXCEPT ![FEEDBACK_STORAGE_KEY] =
                                     TextItem(newFingerprint)]
                           ELSE localStorage
        /\ voteUI' = [voteUI EXCEPT !.mounted = TRUE,
                                    !.fingerprint = newFingerprint,
                                    !.votedButtons = IF voted.kind = "null"
                                                     THEN @ ELSE voted.items,
                                    !.countsPending = TRUE]
        /\ UNCHANGED <<chatUI, tipsUI, nonUI>>

\* lines 29-33: the GET of the mount effect settles
InitialCounts(fetched) ==
    /\ voteUI.countsPending
    /\ voteUI' = [voteUI EXCEPT !.countsPending = FALSE,
                                !.counts = IF fetched THEN "fetched" ELSE @]
    /\ UNCHANGED <<chatUI, tipsUI, localStorage, nonUI>>

\* lines 37-46: handleVote up to the await of the POST
ClickVote(type) ==
    LET ui == [voteUI EXCEPT !.attempts = @ + 1]
    IN  /\ voteUI.mounted
        /\ voteUI.attempts < MaxVoteAttempts
        /\ voteUI' =
             IF VoteBlocked(voteUI.shown, type)
             THEN ui
             ELSE FlushVote([ui EXCEPT
                     !.isLoading = TRUE,
                     !.posts = @ + 1,
                     !.flights = Append(@,
                         [pc |-> "post", type |-> type,
                          votedButtons |-> voteUI.shown.votedButtons,
                          fingerprint |-> voteUI.shown.fingerprint])])
        /\ UNCHANGED <<chatUI, tipsUI, localStorage, nonUI>>

\* lines 62-64: finally
FinallyVote(ui, i) ==
    [ui EXCEPT !.isLoading = FALSE, !.flights = Drop(@, i)]

\* lines 42-58: the POST settles
PostSettles(i, reply) ==
    LET f == voteUI.flights[i]
        newVoted == Append(f.votedButtons, f.type)
    IN  /\ i \in DOMAIN voteUI.flights
        /\ f.pc = "post"
        /\ IF reply = "ok"
           THEN /\ localStorage' = [localStorage EXCEPT ![VOTED_KEY] =
                                        Stringify(newVoted)]
                /\ voteUI' = [voteUI EXCEPT !.votedButtons = newVoted,
                                            !.flights[i].pc = "counts"]
           ELSE /\ localStorage' = localStorage
                /\ voteUI' = FinallyVote(voteUI, i)
        /\ UNCHANGED <<chatUI, tipsUI, nonUI>>

\* lines 58-64: the GET of the new counts settles
CountsSettle(i, fetched) ==
    /\ i \in DOMAIN voteUI.flights
    /\ voteUI.flights[i].pc = "counts"
    /\ voteUI' = FinallyVote([voteUI EXCEPT
                                !.counts = IF fetched THEN "fetched" ELSE @], i)
    /\ UNCHANGED <<chatUI, tipsUI, localStorage, nonUI>>

RenderVote ==
    /\ voteUI.shown # Closure(voteUI)
    /\ voteUI' = FlushVote(voteUI)
    /\ UNCHANGED <<chatUI, tipsUI, localStorage, nonUI>>

(***************************************************************************)
(* useSavedTips (hooks/useSavedTips.ts): the load effect, the persist      *)
(* effect and the operations on the list.                                  *)
(***************************************************************************)
TipsIn == {"a", "b"}

\* what localStorage may hold under the key when the hook mounts
StoredTipsIn ==
    {NullItem, InvalidItem, ObjectItem, Stringify(<<>>), Stringify(<<"a">>),
     Stringify(<<"b", "a">>)}

\* pc: the effect that runs next, "ready" when none is pending; rendered: the
\* savedTips of the last render; dirty: savedTips was set since; ops: the
\* operations on the list so far; atMount: the item at the mount
TipsUIStart(stored) ==
    [pc |-> "load", savedTips |-> <<>>, rendered |-> <<>>,
     isInitialLoadRef |-> TRUE, dirty |-> FALSE, ops |-> 0, atMount |-> stored]

\* lines 80-94: the load effect of the first render
LoadEffect ==
    LET stored == localStorage[TIPS_STORAGE_KEY]
    IN  /\ tipsUI.pc = "load"
        /\ tipsUI' = [tipsUI EXCEPT
                         !.savedTips = IF stored.kind = "array"
                                       THEN stored.items ELSE @,
                         !.dirty = (stored.kind = "array"),
                         !.isInitialLoadRef = FALSE,
                         !.pc = "persist"]
        /\ UNCHANGED <<chatUI, voteUI, localStorage, nonUI>>

\* lines 96-104: the persist effect, of the first render and of every render
\* with a new savedTips
PersistEffect ==
    /\ tipsUI.pc = "persist"
    /\ localStorage' = IF tipsUI.isInitialLoadRef
                       THEN localStorage
                       ELSE [localStorage EXCEPT ![TIPS_STORAGE_KEY] =
                                Stringify(tipsUI.rendered)]
    /\ tipsUI' = [tipsUI EXCEPT !.pc = "ready"]
    /\ UNCHANGED <<chatUI, voteUI, nonUI>>

\* the render after setSavedTips
RenderTips ==
    /\ tipsUI.pc = "ready"
    /\ tipsUI.dirty
    /\ tipsUI' = [tipsUI EXCEPT !.rendered = tipsUI.savedTips,
                                !.dirty = FALSE, !.pc = "persist"]
    /\ UNCHANGED <<chatUI, voteUI, localStorage, nonUI>>

\* an operation may run once no effect is pending
TipsReady == tipsUI.pc = "ready" /\ tipsUI.ops < MaxTipOps

\* setSavedTips of an operation
SetSavedTips(ui, list) ==
    [ui EXCEPT !.savedTips = list, !.dirty = TRUE, !.ops = @ + 1]

\* lines 111-113
SaveTip(tip) ==
    /\ TipsReady
    /\ tipsUI' = SetSavedTips(tipsUI, <<tip>> \o Without(tipsUI.savedTips, tip))
    /\ UNCHANGED <<chatUI, voteUI, localStorage, nonUI>>

\* lines 115-117
RemoveTip(tipId) ==
    /\ TipsReady
    /\ tipsUI' = SetSavedTips(tipsUI, Without(tipsUI.savedTips, tipId))
    /\ UNCHANGED <<chatUI, voteUI, localStorage, nonUI>>

\* lines 123-125
ClearTips ==
    /\ TipsReady
    /\ tipsUI' = SetSavedTips(tipsUI, <<>>)
    /\ UNCHANGED <<chatUI, voteUI, localStorage, nonUI>>

\* no component is mounted
ClientIdle ==
    /\ chatUI = ChatUIStart
    /\ voteUI = VoteUIStart
    /\ tipsUI = TipsUIStart(NullItem)
    /\ localStorage = EmptyStorage

(***************************************************************************)
(* Specifications                                                          *)
(***************************************************************************)
InitRL(P) ==
    /\ FeedbackIdle
    /\ ChatIdle
    /\ ClientIdle
    /\ now = 0
    /\ redis = <<>>
    /\ calls = [p \in P |-> IdleCall]
    /\ last = IdleCall
    /\ mLanded = [i \in Identifiers |-> 0]
    /\ dLanded = [i \in Identifiers |-> 0]
    /\ failures = 0

StepFor(P, I) ==
    \E p \in P :
        \/ \E i \in I : Start(P, p, i)
        \/ IncrMinute(p)
        \/ ExpireMinute(p)
        \/ IncrDay(p)
        \/ ExpireDay(p)

StepRL(P) == StepFor(P, OneClient)

\* one caller at a time over a whole day's budget
InitDay == InitRL({1})

NextDay == StepRL({1}) \/ Tick(MaxTimeDay, FALSE)

SpecDay == InitDay /\ [][NextDay]_vars

\* stalled calls and failing store calls over two windows
FailRL(P) ==
    \E p \in P :
        \/ IncrMinuteFail(p)
        \/ ExpireMinuteFail(p)
        \/ IncrDayFail(p)
        \/ ExpireDayFail(p)

FailCallers == 1..NFailCallers

InitFail == InitRL(FailCallers)

NextFail == StepRL(FailCallers) \/ FailRL(FailCallers) \/ Tick(MaxTime, TRUE)

SpecFail == InitFail /\ [][NextFail]_vars

\* callers of two identifiers, the empty string one of them, whose store calls
\* interleave within one clock instant
IdCallers == 1..NIdCallers

InitIds == InitRL(IdCallers)

NextIds == StepFor(IdCallers, Identifiers)

SpecIds == InitIds /\ [][NextIds]_vars

\* concurrent callers and stalled calls over two windows
Init == InitRL(Callers)

Next == StepRL(Callers) \/ Tick(MaxTime, TRUE)

Spec == Init /\ [][Next]_vars

RateLimiterIdle ==
    /\ now = 0
    /\ redis = <<>>
    /\ calls = <<>>
    /\ last = IdleCall
    /\ mLanded = [i \in Identifiers |-> 0]
    /\ dLanded = [i \in Identifiers |-> 0]
    /\ failures = 0

\* the feedback endpoint: either revision deployed, the table with or without
\* the unique constraint, requests in flight together, failing store calls
InitFeedback ==
    /\ RateLimiterIdle
    /\ ChatIdle
    /\ ClientIdle
    /\ uniqueConstraint \in BOOLEAN
    /\ revision \in Revisions
    /\ clicks = {}
    /\ votes = [v \in Voters |-> IdleVote]
    /\ lastVote = IdleVote
    /\ accepted = <<>>
    /\ fbStarted = 0
    /\ fbFailures = 0

NextFeedback ==
    \E v \in Voters :
          \/ \E t \in TypesIn, f \in FingerprintsIn : Receive(v, t, f)
          \/ Check(v)
          \/ CheckFail(v)
          \/ Insert(v)
          \/ InsertFail(v)
          \/ Count(v)
          \/ CountLove(v)
          \/ CountWant(v)
          \/ ReceiveTally(v)
          \/ TallyLove(v)
          \/ TallyWant(v)

SpecFeedback == InitFeedback /\ [][NextFeedback]_vars

\* the rows the inserts of lines 63-70 have left for one pair
RowsOf(n) ==
    {[id |-> i, button_type |-> "love_website", user_fingerprint |-> "f1"] :
        i \in 1..n}

\* the feedback endpoint on a table that holds rows of one pair already, two
\* or more of them only without the unique constraint; requests one at a time
InitRows ==
    /\ RateLimiterIdle
    /\ ChatIdle
    /\ ClientIdle
    /\ revision \in Revisions
    /\ \E n \in 0..MaxRows :
          /\ clicks = RowsOf(n)
          /\ accepted = IF n = 0 THEN <<>>
                        ELSE (<<"love_website", "f1">> :> n)
          /\ uniqueConstraint \in {b \in BOOLEAN : b => n <= 1}
    /\ votes = [v \in Voters |-> IdleVote]
    /\ lastVote = IdleVote
    /\ fbStarted = 0
    /\ fbFailures = 0

NextRows ==
    \/ \E t \in TypesIn, f \in FingerprintsIn : Receive(1, t, f)
    \/ Check(1)
    \/ CheckFail(1)
    \/ Insert(1)
    \/ InsertFail(1)
    \/ Count(1)
    \/ CountLove(1)
    \/ CountWant(1)
    \/ ReceiveTally(1)
    \/ TallyLove(1)
    \/ TallyWant(1)

SpecRows == InitRows /\ [][NextRows]_vars

\* the chat endpoint: the key set or not, requests in flight together
InitChat ==
    /\ RateLimiterIdle
    /\ FeedbackIdle
    /\ ClientIdle
    /\ apiKey \in BOOLEAN
    /\ chats = [r \in Chatters |-> IdleChat]
    /\ lastChat = IdleChat
    /\ geminiCalls = 0
    /\ chatStarted = 0

NextChat ==
    \E r \in Chatters :
        \/ \E m \in MessagesIn, d \in LimiterVerdicts : Arrive(r, m, d)
        \/ Body(r)
        \/ \E a \in GeminiAnswers : Gemini(r, a)

SpecChat == InitChat /\ [][NextChat]_vars

\* the chat component: typing, submits, prompt clicks; a request that was
\* sent settles (fetch resolves or rejects in the end)
InitChatUI ==
    /\ RateLimiterIdle
    /\ FeedbackIdle
    /\ ChatIdle
    /\ ClientIdle

SettlesChat ==
    \E i \in 1..MaxChatEvents :
        \/ \E reply \in ChatReplies : FetchSettles(i, reply)
        \/ \E parsed \in BOOLEAN : JsonSettles(i, parsed)

NextChatUI ==
    \/ \E text \in InputsIn : TypeInput(text)
    \/ Submit
    \/ \E prompt \in PromptsIn : PromptClick(prompt)
    \/ SettlesChat
    \/ RenderChat

SpecChatUI ==
    InitChatUI /\ [][NextChatUI]_vars /\ WF_vars(SettlesChat) /\ WF_vars(RenderChat)

\* the feedback buttons of a first visit or of a later one
InitVoteUI ==
    /\ RateLimiterIdle
    /\ FeedbackIdle
    /\ ChatIdle
    /\ chatUI = ChatUIStart
    /\ tipsUI = TipsUIStart(NullItem)
    /\ voteUI = VoteUIStart
    /\ \E voted \in {NullItem, Stringify(<<>>), Stringify(<<"love_website">>),
                     Stringify(<<"want_app", "love_website">>)} :
       \E stored \in {NullItem, TextItem("stored")} :
          /\ stored.kind = "null" => voted.kind = "null"
          /\ localStorage = [EmptyStorage EXCEPT ![FEEDBACK_STORAGE_KEY] = stored,
                                                 ![VOTED_KEY] = voted]

NextVoteUI ==
    \/ MountVote
    \/ \E fetched \in BOOLEAN : InitialCounts(fetched)
    \/ \E type \in ButtonTypes : ClickVote(type)
    \/ \E i \in 1..MaxVoteAttempts :
          \/ \E reply \in VoteReplies : PostSettles(i, reply)
          \/ \E fetched \in BOOLEAN : CountsSettle(i, fetched)
    \/ RenderVote

SpecVoteUI == InitVoteUI /\ [][NextVoteUI]_vars

\* the saved tips hook, mounted on what an earlier visit left in localStorage
InitTips ==
    /\ RateLimiterIdle
    /\ FeedbackIdle
    /\ ChatIdle
    /\ chatUI = ChatUIStart
    /\ voteUI = VoteUIStart
    /\ \E stored \in StoredTipsIn :
          /\ localStorage = [EmptyStorage EXCEPT ![TIPS_STORAGE_KEY] = stored]
          /\ tipsUI = TipsUIStart(stored)

NextTips ==
    \/ LoadEffect
    \/ PersistEffect
    \/ RenderTips
    \/ \E tip \in TipsIn : SaveTip(tip)
    \/ \E tipId \in TipsIn : RemoveTip(tipId)
    \/ ClearTips

SpecTips == InitTips /\ [][NextTips]_vars

(***************************************************************************)
(* Properties of the rate limiter                                          *)
(***************************************************************************)
Returned(c) == c.pc = "done" /\ c.result # "error"

Allowed(c) == c.result = "success"

Denied(c, after) == c.result = "denied" /\ c.retryAfter = after

\* a call in flight that holds its post-increment minute count
HoldsMinuteCount(c) == c.pc \in {"expireMinute", "incrDay", "expireDay"}

\* C1 as stated: of the calls of an identifier that fall in one minute window,
\* the first 5 return success and the 6th returns failure with retryAfter = 60.
C1_MinuteCapAsStated ==
    Returned(last) =>
        /\ last.ordM \in 1..MAX_REQUESTS_PER_WINDOW => Allowed(last)
        /\ last.ordM = MAX_REQUESTS_PER_WINDOW + 1 => Denied(last, WINDOW_SECONDS)

\* C1 (amended): of the calls of an identifier that fall in one minute window,
\* each of the first 5 returns success unless the day counter it incremented
\* exceeds 100, and then it returns failure with retryAfter = 86400; the 6th
\* returns failure with retryAfter = 60.
C1_MinuteCap ==
    Returned(last) =>
        /\ last.ordM \in 1..MAX_REQUESTS_PER_WINDOW =>
              IF last.dayCount <= MAX_REQUESTS_PER_DAY
              THEN Allowed(last)
              ELSE Denied(last, DAILY_WINDOW_SECONDS)
        /\ last.ordM = MAX_REQUESTS_PER_WINDOW + 1 => Denied(last, WINDOW_SECONDS)

\* the 6th call of a window has returned, denied for 60 seconds, after 5 calls
\* of that window were let past the minute limit
C1_Witness ==
    /\ Returned(last)
    /\ last.ordM = MAX_REQUESTS_PER_WINDOW + 1
    /\ Denied(last, WINDOW_SECONDS)
    /\ redis[MinuteKey(last.identifier, last.window)].passed = MAX_REQUESTS_PER_WINDOW

\* C2: of the calls of an identifier that pass the minute limit on one UTC
\* date, the first 100 return success and the 101st returns failure with
\* retryAfter = 86400, whatever minute windows they fell in.
C2_DayCap ==
    Returned(last) =>
        /\ last.ordD \in 1..MAX_REQUESTS_PER_DAY => Allowed(last)
        /\ last.ordD = MAX_REQUESTS_PER_DAY + 1 => Denied(last, DAILY_WINDOW_SECONDS)

\* the 101st call of the date has returned, denied for 86400 seconds, in the
\* 21st minute window of the date
C2_Witness ==
    /\ Returned(last)
    /\ last.ordD = MAX_REQUESTS_PER_DAY + 1
    /\ Denied(last, DAILY_WINDOW_SECONDS)
    /\ last.window = MAX_REQUESTS_PER_DAY \div MAX_REQUESTS_PER_WINDOW

\* C5 as stated: calls of one identifier that are in flight together with keys
\* for the same minute window hold distinct post-increment minute counts.
C5_DistinctCountsAsStated ==
    \A p, q \in DOMAIN calls :
        ( /\ p # q
          /\ HoldsMinuteCount(calls[p]) /\ HoldsMinuteCount(calls[q])
          /\ calls[p].identifier = calls[q].identifier
          /\ calls[p].window = calls[q].window )
        => calls[p].minuteCount # calls[q].minuteCount

\* C5 (amended): calls of one identifier that are in flight together and whose
\* increments reached the same minute counter before it expired hold distinct
\* post-increment minute counts, and at most 5 of the calls that incremented
\* one such counter are let past the minute limit (only those can return
\* success).
C5_DistinctCounts ==
    /\ \A p, q \in DOMAIN calls :
          ( /\ p # q
            /\ HoldsMinuteCount(calls[p]) /\ HoldsMinuteCount(calls[q])
            /\ calls[p].identifier = calls[q].identifier
            /\ calls[p].window = calls[q].window
            /\ calls[p].born = calls[q].born )
          => calls[p].minuteCount # calls[q].minuteCount
    /\ \A k \in DOMAIN redis : redis[k].passed <= MAX_REQUESTS_PER_WINDOW
    /\ Returned(last) /\ Allowed(last) =>
          last.minuteCount \in 1..MAX_REQUESTS_PER_WINDOW

\* two calls in flight together hold the 4th and the 5th count of one counter,
\* which has let 5 calls pass
C5_Witness ==
    \E p, q \in DOMAIN calls :
        /\ p # q
        /\ HoldsMinuteCount(calls[p]) /\ HoldsMinuteCount(calls[q])
        /\ calls[p].identifier = calls[q].identifier
        /\ calls[p].window = calls[q].window
        /\ calls[p].born = calls[q].born
        /\ MinuteKey(calls[p].identifier, calls[p].window) \in DOMAIN redis
        /\ redis[MinuteKey(calls[p].identifier, calls[p].window)].passed
             = MAX_REQUESTS_PER_WINDOW

\* C7: a call one of whose store calls failed ends with the error; it returns
\* neither success nor a denial.
C7_StoreFailureSurfaces ==
    /\ last.failed => last.pc = "done" /\ last.result = "error"
    /\ \A p \in DOMAIN calls : ~calls[p].failed

\* a call whose expire failed after its increment created the counter
C7_Witness ==
    /\ last.failed
    /\ last.result = "error"
    /\ last.minuteCount = 1

\* C12: the first call of an identifier to land in a minute window, whatever
\* happened in the window before, a denial included, observes the minute
\* count 1 on the new window's key and returns success, unless the day counter
\* it incremented exceeds 100.
C12_WindowReset ==
    Returned(last) /\ last.ordM = 1 =>
        /\ last.minuteCount = 1
        /\ last.dayCount <= MAX_REQUESTS_PER_DAY => Allowed(last)

\* the counter of the window before still stands at 6, its 6th call denied,
\* and the first call of the new window has returned success with count 1
C12_Witness ==
    /\ Returned(last)
    /\ last.window = CurrentWindow(now)
    /\ last.window >= 1
    /\ last.ordM = 1
    /\ last.minuteCount = 1
    /\ Allowed(last)
    /\ MinuteKey(last.identifier, last.window - 1) \in DOMAIN redis
    /\ redis[MinuteKey(last.identifier, last.window - 1)].count
         = MAX_REQUESTS_PER_WINDOW + 1

\* the day counters of a store
DayCounters(store) ==
    [k \in {d \in DOMAIN store : d[1] = "chat:rl:day"} |->
        [count |-> store[k].count, exp |-> store[k].exp]]

\* the count of a key, 0 for a key that does not exist
CountAt(store, k) == IF k \in DOMAIN store THEN store[k].count ELSE 0

\* C13: a call that returns the minute denial has never incremented the day
\* counter, the step on which it returns leaves every day counter and its TTL
\* as they were, and that step has raised the call's minute counter by one.
C13_MinuteDeniedNotCharged ==
    [][ \A p \in DOMAIN calls :
          ( /\ calls[p].pc # "idle"
            /\ calls'[p].pc = "idle"
            /\ Denied(last', WINDOW_SECONDS) )
          => /\ DayCounters(redis') = DayCounters(redis)
             /\ last'.dayCount = 0
             /\ LET k == MinuteKey(last'.identifier, last'.window)
                IN  /\ CountAt(redis', k) = CountAt(redis, k) + 1
                    /\ CountAt(redis', k) = last'.minuteCount
      ]_vars

\* the 6th call of a window has returned the minute denial: the minute counter
\* stands at 6 and the day counter at the 5 calls that passed
C13_Witness ==
    /\ Returned(last)
    /\ Denied(last, WINDOW_SECONDS)
    /\ last.dayCount = 0
    /\ CountAt(redis, MinuteKey(last.identifier, last.window))
         = MAX_REQUESTS_PER_WINDOW + 1
    /\ CountAt(redis, DayKey(last.identifier, last.day)) = MAX_REQUESTS_PER_WINDOW

\* the identifier of the call that slot p moves on this step
Acting(p) ==
    IF calls[p].pc = "idle" THEN calls'[p].identifier ELSE calls[p].identifier

\* C14: a step of a call for one identifier leaves every key of every other
\* identifier as it was; and the counts a call observes are the ordinals of
\* its own identifier's increments, so that its result follows from the calls
\* made for its identifier alone, whatever calls are made for another one.
C14_IndependentIdentifiers ==
    /\ [][ \A p \in DOMAIN calls :
              calls'[p] # calls[p] =>
                  \A k \in DOMAIN redis \cup DOMAIN redis' :
                      k[2] # Acting(p) =>
                          /\ k \in DOMAIN redis
                          /\ k \in DOMAIN redis'
                          /\ redis'[k] = redis[k]
          ]_vars
    /\ [](\A p \in DOMAIN calls :
              /\ HoldsMinuteCount(calls[p]) => calls[p].minuteCount = calls[p].ordM
              /\ calls[p].pc = "expireDay" => calls[p].dayCount = calls[p].ordD)
    /\ [](Returned(last) =>
              /\ last.minuteCount = last.ordM
              /\ last.dayCount # 0 => last.dayCount = last.ordD
              /\ Allowed(last) <=> /\ last.ordM <= MAX_REQUESTS_PER_WINDOW
                                   /\ last.ordD <= MAX_REQUESTS_PER_DAY)

\* one identifier has used its minute up, its counter at 6, and the first call
\* of another identifier has returned success with count 1
C14_Witness ==
    /\ Returned(last)
    /\ Allowed(last)
    /\ last.minuteCount = 1
    /\ \E a \in Identifiers :
          /\ a # last.identifier
          /\ CountAt(redis, MinuteKey(a, last.window)) = MAX_REQUESTS_PER_WINDOW + 1

\* C18 as stated: a call with the empty string as identifier issues no incr
\* and no expire, and no counter key of the empty identifier exists.
C18_EmptyIdentifierRejectedAsStated ==
    /\ \A p \in DOMAIN calls :
          calls[p].pc # "idle" => calls[p].identifier # ""
    /\ \A k \in DOMAIN redis : k[2] # ""

\* a store call is about to set the TTL of key k
ExpirePending(k) ==
    \E p \in DOMAIN calls :
        \/ /\ calls[p].pc = "expireMinute"
           /\ k = MinuteKey(calls[p].identifier, calls[p].window)
        \/ /\ calls[p].pc = "expireDay"
           /\ k = DayKey(calls[p].identifier, calls[p].day)

\* C19 as stated: every counter key has a TTL or is about to get one from the
\* call that created it, also after a store call has failed.
C19_AutomaticExpiryAsStated ==
    \A k \in DOMAIN redis : redis[k].exp = NoTTL => ExpirePending(k)

\* the counts of the keys that a step leaves in the store are as before,
\* but for key k, which is n higher
CountsStep(k, n) ==
    \A j \in DOMAIN redis \cup DOMAIN redis' :
        CountAt(redis', j) = CountAt(redis, j) + (IF j = k THEN n ELSE 0)

\* C21: a call passes its minute increment once, right after its start, and
\* its day increment at most once, after the minute counter; the minute
\* increment raises the minute counter of the call's window by one, the day
\* increment the day counter of its date by one, and no other step of a call
\* changes a count or removes a key.
C21_CounterAccounting ==
    /\ [][ \A p \in DOMAIN calls :
             calls'[p] # calls[p] =>
                 /\ calls'[p].pc = "incrMinute" <=> calls[p].pc = "idle"
                 /\ calls'[p].pc = "incrDay" =>
                       calls[p].pc \in {"incrMinute", "expireMinute"}
                 /\ DOMAIN redis \subseteq DOMAIN redis'
                 /\ CASE calls[p].pc = "incrMinute" ->
                             CountsStep(MinuteKey(calls[p].identifier, calls[p].window), 1)
                      [] calls[p].pc = "incrDay" ->
                             CountsStep(DayKey(calls[p].identifier, calls[p].day), 1)
                      [] OTHER -> CountsStep(<<>>, 0)
         ]_vars
    /\ [][ \A j \in DOMAIN redis \cap DOMAIN redis' :
              redis'[j].born = redis[j].born => redis'[j].count >= redis[j].count
        ]_vars

\* the 5th call of a window has returned success: the minute counter and the
\* day counter stand at 5, one increment of each for every call
C21_Witness ==
    /\ Returned(last)
    /\ Allowed(last)
    /\ last.minuteCount = MAX_REQUESTS_PER_WINDOW
    /\ last.dayCount = MAX_REQUESTS_PER_WINDOW
    /\ CountAt(redis, MinuteKey(last.identifier, last.window)) = last.minuteCount
    /\ CountAt(redis, DayKey(last.identifier, last.day)) = last.dayCount

\* the TTLs that a step leaves are as before, but for key k
TTLsStep(k) ==
    \A j \in DOMAIN redis \cap DOMAIN redis' :
        j # k => redis'[j].exp = redis[j].exp

\* C22: a call goes on to expire a key exactly when its own increment of that
\* key returned 1; only an expire step changes a TTL, that of its own key; and
\* a TTL that is set is never changed, so no later request extends a window.
C22_TTLOnlyOnCreation ==
    [][ /\ \A p \in DOMAIN calls :
              calls'[p] # calls[p] =>
                  /\ calls'[p].pc = "expireMinute" <=>
                        calls[p].pc = "incrMinute" /\ calls'[p].minuteCount = 1
                  /\ calls'[p].pc = "expireDay" <=>
                        calls[p].pc = "incrDay" /\ calls'[p].dayCount = 1
                  /\ CASE calls[p].pc = "expireMinute" ->
                              TTLsStep(MinuteKey(calls[p].identifier, calls[p].window))
                       [] calls[p].pc = "expireDay" ->
                              TTLsStep(DayKey(calls[p].identifier, calls[p].day))
                       [] OTHER -> TTLsStep(<<>>)
        /\ \A j \in DOMAIN redis \cap DOMAIN redis' :
              redis[j].exp # NoTTL /\ redis[j].born = redis'[j].born =>
                  redis'[j].exp = redis[j].exp
      ]_vars

\* a call at the last second of a window found the counter that was created
\* at the first second: the key still expires 60 seconds after its creation
C22_Witness ==
    /\ Returned(last)
    /\ last.minuteCount >= 2
    /\ now = WINDOW_SECONDS - 1
    /\ last.window = CurrentWindow(now)
    /\ MinuteKey(last.identifier, last.window) \in DOMAIN redis
    /\ redis[MinuteKey(last.identifier, last.window)].born = 0
    /\ redis[MinuteKey(last.identifier, last.window)].exp = WINDOW_SECONDS

\* C23: every minute counter lets at most 5 calls pass, and a call returns
\* success only as one of the first 5 of its window; yet (the witness) 10
\* calls succeed within 2 seconds across the edge of two windows.
C23_BurstAtEdge ==
    /\ \A k \in DOMAIN redis :
          k[1] = "chat:rl:minute" => redis[k].passed <= MAX_REQUESTS_PER_WINDOW
    /\ Returned(last) /\ Allowed(last) =>
          last.ordM \in 1..MAX_REQUESTS_PER_WINDOW

\* the 10th call of the date has returned success at the first second of a
\* window: 5 calls passed on the counter created one second before, at the
\* last second of the window before, and 5 on the counter of this window
C23_Witness ==
    LET before == MinuteKey(last.identifier, last.window - 1)
        this == MinuteKey(last.identifier, last.window)
    IN  /\ Returned(last)
        /\ Allowed(last)
        /\ last.ordD = 2 * MAX_REQUESTS_PER_WINDOW
        /\ now = last.window * WINDOW_SECONDS
        /\ before \in DOMAIN redis
        /\ redis[before].born = now - 1
        /\ redis[before].passed = MAX_REQUESTS_PER_WINDOW
        /\ this \in DOMAIN redis
        /\ redis[this].born = now
        /\ redis[this].passed = MAX_REQUESTS_PER_WINDOW

\* a key with a TTL outlives the window, or the date, it is named after
OutlivesWindow ==
    \A k \in DOMAIN redis :
        redis[k].exp # NoTTL =>
            IF k[1] = "chat:rl:minute"
            THEN CurrentWindow(redis[k].exp) > k[3]
            ELSE CurrentDay(redis[k].exp) > k[3]

\* C27 as stated: a key cannot expire before its window, or its date, has
\* ended, and of the calls whose key is for one window no two find the
\* counter at 1.
C27_NoEarlyResetAsStated ==
    /\ OutlivesWindow
    /\ \A p, q \in DOMAIN calls :
          ( /\ p # q
            /\ HoldsMinuteCount(calls[p]) /\ HoldsMinuteCount(calls[q])
            /\ calls[p].identifier = calls[q].identifier
            /\ calls[p].window = calls[q].window )
          => ~(calls[p].minuteCount = 1 /\ calls[q].minuteCount = 1)

\* C27 (amended): a key cannot expire before its window, or its date, has
\* ended, and a call whose increment lands while its window is current reads
\* the number of increments that have landed in that window: the counter has
\* not been restarted.
C27_NoEarlyReset ==
    /\ OutlivesWindow
    /\ \A p \in DOMAIN calls :
          HoldsMinuteCount(calls[p]) /\ calls[p].ordM >= 1 =>
              calls[p].minuteCount = calls[p].ordM
    /\ Returned(last) /\ last.ordM >= 1 => last.minuteCount = last.ordM

\* the TTL of the counter created at the first second of the window was set
\* at its last second, and the third call of the window has read 3
C27_Witness ==
    LET k == MinuteKey(last.identifier, last.window)
    IN  /\ Returned(last)
        /\ last.ordM = 3
        /\ last.minuteCount = 3
        /\ now = WINDOW_SECONDS - 1
        /\ k \in DOMAIN redis
        /\ redis[k].born = 0
        /\ redis[k].exp = now + WINDOW_SECONDS

\* C28: once the day counter of an identifier has passed 100, no call of that
\* date returns success: a call that increments it reads its own ordinal of
\* the date, is denied for 86400 seconds and has taken one of the 5 places of
\* its minute window, and a call after those 5 is denied for 60 seconds.
C28_DayExhaustionSticky ==
    ( /\ Returned(last)
      /\ last.day = CurrentDay(now)
      /\ dLanded[last.identifier] > MAX_REQUESTS_PER_DAY )
    => /\ ~Allowed(last)
       /\ last.ordD > MAX_REQUESTS_PER_DAY \/ last.ordD = 0
       /\ last.ordD > MAX_REQUESTS_PER_DAY =>
             /\ Denied(last, DAILY_WINDOW_SECONDS)
             /\ last.dayCount = last.ordD
             /\ last.minuteCount = last.ordM
             /\ last.ordM \in 1..MAX_REQUESTS_PER_WINDOW
       /\ last.ordD = 0 =>
             /\ Denied(last, WINDOW_SECONDS)
             /\ last.ordM > MAX_REQUESTS_PER_WINDOW

\* after 5 calls of a window were denied by the day limit, the day counter at
\* 105, the 6th call of that window is denied by the minute limit
C28_Witness ==
    /\ Returned(last)
    /\ Denied(last, WINDOW_SECONDS)
    /\ last.ordM = MAX_REQUESTS_PER_WINDOW + 1
    /\ dLanded[last.identifier] = MAX_REQUESTS_PER_DAY + MAX_REQUESTS_PER_WINDOW
    /\ CountAt(redis, DayKey(last.identifier, last.day))
         = MAX_REQUESTS_PER_DAY + MAX_REQUESTS_PER_WINDOW

(***************************************************************************)
(* Properties of the feedback endpoint                                     *)
(***************************************************************************)
Answered(r) == r.pc = "done"

ValidVote(r) == ~InvalidRequest(r.type, r.fingerprint)

StoreFailed(r) == r.checkFailed \/ r.insertFailed

\* C3 as stated: with a working store, of the submissions of one (type,
\* fingerprint), in flight together or not, exactly one is answered Accepted
\* (200) and every other one Duplicate (409).
C3_OneAcceptedAsStated ==
    fbFailures = 0 =>
        /\ \A pair \in DOMAIN accepted : accepted[pair] <= 1
        /\ Answered(lastVote) /\ ValidVote(lastVote) => lastVote.status \in {200, 409}

\* C4 as stated: no two rows of feedback_clicks have the same button_type and
\* the same user_fingerprint.
C4_UniqueVotesAsStated ==
    \A r1, r2 \in clicks :
        ( /\ r1.button_type = r2.button_type
          /\ r1.user_fingerprint = r2.user_fingerprint ) => r1 = r2

\* C6: a submission that runs alone with a working store is answered Accepted
\* when its pair has no row, and then the tally of its type is one higher and
\* every other tally is as before; it is answered Duplicate when its pair has
\* one row, and then it inserts nothing and every tally is as before.
C6_VoteIdempotence ==
    ( /\ Answered(lastVote)
      /\ ValidVote(lastVote)
      /\ lastVote.quiet
      /\ ~StoreFailed(lastVote) )
    => /\ lastVote.rowsAtStart = 0 =>
            /\ lastVote.status = 200
            /\ lastVote.tallyEnd =
                 [lastVote.tallyStart EXCEPT ![lastVote.type] = @ + 1]
       /\ lastVote.rowsAtStart = 1 =>
            /\ lastVote.status = 409
            /\ lastVote.inserted = 0
            /\ lastVote.tallyEnd = lastVote.tallyStart

\* two submissions of one pair, one after the other: the first was answered
\* Accepted, the second Duplicate, and the tally of the type stands at 1
C6_Witness ==
    /\ Answered(lastVote)
    /\ lastVote.quiet
    /\ lastVote.rowsAtStart = 1
    /\ lastVote.status = 409
    /\ fbStarted = 2
    /\ fbFailures = 0
    /\ accepted = (<<lastVote.type, lastVote.fingerprint>> :> 1)
    /\ lastVote.tallyEnd[lastVote.type] = 1

\* C8 as stated: a submission whose existence check or insert failed in the
\* store is answered with an error, never Accepted.
C8_FeedbackFailureSurfacesAsStated ==
    Answered(lastVote) /\ StoreFailed(lastVote) => lastVote.status = 500

\* C9 as stated: a submission whose insert the store refused because the pair
\* has a row is answered 409 'Already voted', as by the existence check.
C9_RejectedInsertIsDuplicateAsStated ==
    Answered(lastVote) /\ lastVote.insertRejected =>
        /\ lastVote.status = 409
        /\ lastVote.body.error = "Already voted"

Posted(r) == r.method = "POST"

\* C15: a submission is answered Duplicate (409) only when a row of its own
\* type and fingerprint is stored; a row of the other type with the same
\* fingerprint never makes it a duplicate.
C15_CategoryIsolation ==
    Answered(lastVote) /\ Posted(lastVote) /\ lastVote.status = 409 =>
        Matching(clicks, lastVote.type, lastVote.fingerprint) # {}

\* one fingerprint has voted for one type and then for the other, one after
\* the other with a working store, and both votes were answered Accepted
C15_Witness ==
    /\ Answered(lastVote)
    /\ Posted(lastVote)
    /\ lastVote.status = 200
    /\ lastVote.quiet
    /\ fbStarted = 2
    /\ fbFailures = 0
    /\ accepted = [pair \in {<<t, lastVote.fingerprint>> : t \in ButtonTypes} |-> 1]

\* C16: a tally answered with 200 has no error and an entry for love_website
\* and one for want_app, each a number of rows of its type that the table
\* held between the arrival of the request and its answer (so not negative,
\* and 0 for a type without votes).
C16_TallyCompleteness ==
    Answered(lastVote) /\ lastVote.method = "GET" /\ lastVote.status = 200 =>
        /\ lastVote.body.error = ""
        /\ lastVote.body.loveWebsite \in
              lastVote.tallyStart["love_website"]..lastVote.tallyEnd["love_website"]
        /\ lastVote.body.wantApp \in
              lastVote.tallyStart["want_app"]..lastVote.tallyEnd["want_app"]

\* a tally of a table with one vote: 1 for the voted type, 0 for the other
C16_Witness ==
    /\ Answered(lastVote)
    /\ lastVote.method = "GET"
    /\ lastVote.status = 200
    /\ Cardinality(clicks) = 1
    /\ \E t \in ButtonTypes : lastVote.tallyEnd[t] = 0
    /\ lastVote.body.loveWebsite = lastVote.tallyEnd["love_website"]
    /\ lastVote.body.wantApp = lastVote.tallyEnd["want_app"]

\* the body of a vote request carries no type of the enumeration or no fingerprint
BadInput(r) == r.type \notin ButtonTypes \/ r.fingerprint = ""

Shown(r) ==
    IF revision = "route.ts" THEN r.body.count
    ELSE IF r.type = "love_website" THEN r.body.loveWebsite ELSE r.body.wantApp

\* C20 as stated: a vote answered 200 shows a count of its type read after its
\* insert, which includes the vote just stored; a submission that runs alone
\* with a working store and whose pair has a row is answered 409.
C20_AcceptedResponseAsStated ==
    /\ Answered(lastVote) /\ Posted(lastVote) /\ lastVote.status = 200 =>
          Shown(lastVote) \in
              (lastVote.tallyStart[lastVote.type] + 1)..lastVote.tallyEnd[lastVote.type]
    /\ ( /\ Answered(lastVote) /\ Posted(lastVote) /\ ValidVote(lastVote)
         /\ lastVote.quiet /\ ~StoreFailed(lastVote)
         /\ lastVote.rowsAtStart = 1 )
       => lastVote.status = 409

\* (the same with every read of the counts succeeding)
C20_AcceptedResponseWorkingStore ==
    fbFailures = 0 => C20_AcceptedResponseAsStated

\* C29 as stated: a submission that runs with a working store for a pair that
\* has one row or more is answered 409 and inserts nothing, and the number of
\* rows of a pair that has one row or more does not grow.
C29_DuplicateDetectionAsStated ==
    ( /\ Answered(lastVote)
      /\ Posted(lastVote)
      /\ ValidVote(lastVote)
      /\ ~StoreFailed(lastVote)
      /\ lastVote.rowsAtStart >= 1 )
    => /\ lastVote.status = 409
       /\ lastVote.inserted = 0
       /\ Cardinality(Matching(clicks, lastVote.type, lastVote.fingerprint))
            = lastVote.rowsAtStart

(***************************************************************************)
(* Properties of the chat endpoint                                         *)
(***************************************************************************)
\* C10 as stated: every chat request has called checkRateLimit from its start
\* on, and the Gemini API is called only for requests it returned success for.
C10_RateLimitGateAsStated ==
    /\ \A r \in DOMAIN chats :
          /\ chats[r].pc # "idle" => chats[r].rateLimit # "none"
          /\ chats[r].calledGemini => chats[r].rateLimit = "success"
    /\ lastChat.calledGemini => lastChat.rateLimit = "success"

\* C11 as stated: a chat request whose client the rate limiter denies is
\* answered with status 429 and a Retry-After header of the limiter's
\* retryAfter: 60 for the minute limit, 86400 for the day limit.
C11_DeniedMappingAsStated ==
    Answered(lastChat) /\ lastChat.verdict # "success" =>
        /\ lastChat.status = 429
        /\ lastChat.retryAfter = IF lastChat.verdict = "minute"
                                 THEN WINDOW_SECONDS
                                 ELSE DAILY_WINDOW_SECONDS

\* C24 as stated: a request without a configured key is answered 500 and one
\* whose body has no non-empty string message 400, neither with a call of the
\* Gemini API; a request whose Gemini call failed or returned something else
\* than a text is answered 500 without a response field.
C24_ChatValidationAsStated ==
    /\ \A r \in DOMAIN chats :
          chats[r].calledGemini => apiKey /\ chats[r].message = "text"
    /\ Answered(lastChat) =>
          /\ ~apiKey => lastChat.status = 500 /\ ~lastChat.calledGemini
          /\ apiKey /\ lastChat.message # "text" =>
                lastChat.status = 400 /\ ~lastChat.calledGemini
          /\ lastChat.calledGemini /\ lastChat.answer # "text" =>
                lastChat.status = 500 /\ ~lastChat.hasResponse

\* the same without the two cases that fail: a body that is null and a text
\* field of the Gemini answer that is not a string
C24_ChatValidationOtherInputs ==
    /\ \A r \in DOMAIN chats :
          chats[r].calledGemini => apiKey /\ chats[r].message = "text"
    /\ Answered(lastChat) =>
          /\ ~apiKey => lastChat.status = 500 /\ ~lastChat.calledGemini
          /\ apiKey /\ lastChat.message \notin {"text", "null"} =>
                lastChat.status = 400 /\ ~lastChat.calledGemini
          /\ lastChat.calledGemini /\ lastChat.answer \notin {"text", "nonstring"} =>
                lastChat.status = 500 /\ ~lastChat.hasResponse

(***************************************************************************)
(* Properties of the components                                            *)
(***************************************************************************)
\* C25: at most one chat request is in flight, and isLoading is true exactly
\* while one is.  A submit or prompt click while isLoading is true, or a
\* submit of a blank message, changes nothing; one that sends appends the
\* trimmed user message and sets isLoading with the request.  A request that
\* ends ok appends an assistant message and leaves the error alone; one that
\* fails sets the error and appends nothing; either resets isLoading, and
\* isLoading never stays true for ever.
C25_SingleInFlight ==
    /\ [](Len(chatUI.flights) <= 1)
    /\ [](chatUI.isLoading <=> chatUI.flights # <<>>)
    /\ [][ chatUI'.events # chatUI.events =>
             LET sent == Len(chatUI'.flights) > Len(chatUI.flights)
                 idle == [chatUI EXCEPT !.events = chatUI'.events,
                                        !.arg = chatUI'.arg]
             IN  /\ chatUI.isLoading \/ Trim(chatUI'.arg) = "" => chatUI' = idle
                 /\ ~chatUI.rendered /\ Trim(chatUI'.arg) # "" => sent
                 /\ sent =>
                       /\ chatUI'.messages =
                            Append(chatUI.messages,
                                   [role |-> "user", content |-> Trim(chatUI'.arg)])
                       /\ chatUI'.isLoading
                       /\ ~chatUI'.error
                 /\ ~sent => chatUI'.messages = chatUI.messages
          ]_vars
    /\ [][ Len(chatUI'.flights) < Len(chatUI.flights) =>
             /\ ~chatUI'.isLoading
             /\ chatUI'.settled = "ok" =>
                   /\ chatUI'.messages =
                        Append(chatUI.messages,
                               [role |-> "assistant", content |-> "response"])
                   /\ chatUI'.error = chatUI.error
             /\ chatUI'.settled = "failed" =>
                   /\ chatUI'.messages = chatUI.messages
                   /\ chatUI'.error
          ]_vars
    /\ (chatUI.isLoading ~> ~chatUI.isLoading)

\* of three events one sent a message that was answered, one sent a message
\* whose request failed, and one, at a time the first was in flight or the
\* input blank, did nothing
C25_Witness ==
    /\ chatUI.events = 3
    /\ Len(chatUI.messages) = 4
    /\ chatUI.messages[3].role = "assistant"
    /\ chatUI.messages[4].role = "user"
    /\ chatUI.settled = "failed"
    /\ chatUI.error
    /\ ~chatUI.isLoading
    /\ chatUI.flights = <<>>

\* C26: at most one vote is in flight.  A POST is sent only for a type that
\* is not in votedButtons, while isLoading is false and with the fingerprint
\* that is set; after the mount, votedButtons and the item of localStorage
\* change only when a POST returns ok, by the type of that POST; and whenever
\* no vote is in flight isLoading is false.
C26_ClientVoteGuard ==
    /\ [](Len(voteUI.flights) <= 1)
    /\ [](voteUI.flights = <<>> => ~voteUI.isLoading)
    /\ [][ voteUI'.posts # voteUI.posts =>
             /\ ~voteUI.isLoading
             /\ voteUI.fingerprint # ""
             /\ \E i \in DOMAIN voteUI'.flights :
                   /\ voteUI'.flights[i].pc = "post"
                   /\ ~Includes(voteUI.votedButtons, voteUI'.flights[i].type)
                   /\ voteUI'.flights[i].fingerprint = voteUI.fingerprint
          ]_vars
    /\ [][ ( /\ voteUI.mounted
             /\ \/ voteUI'.votedButtons # voteUI.votedButtons
                \/ localStorage'[VOTED_KEY] # localStorage[VOTED_KEY] )
           => \E i \in DOMAIN voteUI.flights \cap DOMAIN voteUI'.flights :
                /\ voteUI.flights[i].pc = "post"
                /\ voteUI'.flights[i].pc = "counts"
                /\ voteUI'.votedButtons =
                     Append(voteUI.votedButtons, voteUI.flights[i].type)
                /\ localStorage'[VOTED_KEY] = Stringify(voteUI'.votedButtons)
          ]_vars

\* of three calls of handleVote on a first visit, one sent the vote that was
\* accepted and persisted, one was refused by the server, and one, for the
\* type voted or while a vote was in flight, sent nothing
C26_Witness ==
    /\ voteUI.attempts = 3
    /\ voteUI.posts = 2
    /\ voteUI.votedButtons = <<"love_website">>
    /\ localStorage[VOTED_KEY] = Stringify(<<"love_website">>)
    /\ localStorage[FEEDBACK_STORAGE_KEY] = TextItem(voteUI.fingerprint)
    /\ voteUI.flights = <<>>
    /\ ~voteUI.isLoading

\* C30 as stated: while no operation has changed the list, localStorage holds
\* the tips it held at the mount, and in particular not the empty list in
\* their place.
C30_NoOverwriteOnMountAsStated ==
    ( /\ tipsUI.atMount.kind = "array"
      /\ tipsUI.atMount.items # <<>>
      /\ tipsUI.ops = 0 )
    => localStorage[TIPS_STORAGE_KEY] = tipsUI.atMount

\* what does hold: once the effects and renders of the mount are through,
\* localStorage holds the tips it held at the mount again
C30_RestoredAfterRender ==
    ( /\ tipsUI.atMount.kind = "array"
      /\ tipsUI.ops = 0
      /\ tipsUI.pc = "ready"
      /\ ~tipsUI.dirty )
    => localStorage[TIPS_STORAGE_KEY] = tipsUI.atMount

====
